---- MODULE Spec2Model ----
(***************************************************************************)
(* Model of the IAM performance-test seeding scripts.                      *)
(*                                                                         *)
(*   scripts/seed_test_data.py            FerrisKey seeding run            *)
(*   scripts/seed_test_data_keycloak.py   Keycloak seeding run             *)
(*   scripts/lib/ferriskey_provider.py    FerrisKeyProvider adapter        *)
(*   scripts/lib/keycloak_provider.py     KeycloakProvider adapter         *)
(*                                                                         *)
(* The IAM server is the environment: every HTTP call is answered by a     *)
(* response (status, body, Location header) or by a transport exception,   *)
(* drawn from the finite sets below.  The functions of the scripts and of  *)
(* the adapters are operators over such an answer, computed branch by      *)
(* branch as the Python computes them.                                     *)
(***************************************************************************)
EXTENDS Integers, Sequences, FiniteSets, TLC

\* ------------------------------------------------------------------ bounds

\* Largest USER_COUNT explored.
MaxUsers == 2

\* Longest clients.json fixture explored.
MaxClients == 2

\* Longest history of adapter calls explored in AdapterSpec.
MaxCalls == 2

\* The largest USER_COUNT whose usernames are derived: past 999, where the
\* index no longer fits three digits.
MaxIndex == 1001

\* ------------------------------------------------------------ Python values

\* Python's None (also: a key absent from a JSON object, read with .get).
None == "<None>"

\* Truthiness of a str-or-None value: None and "" are falsy.
Truthy(x) == x \notin {None, ""}

\* Python's  a or b .
Or(a, b) == IF Truthy(a) THEN a ELSE b

\* ---------------------------------------------------------- implementations

\* The four implementations of the provider operations.
Scripts == {"seed_test_data", "seed_test_data_keycloak"}

Providers == {"FerrisKeyProvider", "KeycloakProvider"}

Impls == Scripts \cup Providers

\* The backend an implementation talks to.
Backend(impl) ==
    IF impl \in {"seed_test_data", "FerrisKeyProvider"} THEN "ferriskey" ELSE "keycloak"

\* ------------------------------------------------------------- HTTP answers

\* Status codes the server may answer with: the success codes, a 3xx that
\* requests does not follow (300 carries no redirect), client and server errors.
Statuses == {200, 201, 204, 300, 400, 401, 404, 409, 500}

\* Identifiers a server may assign.
Ids == {"u1", "u2"}

\* What .get("id") may yield: absent/null, empty, or an identifier.
IdVals == {None, ""} \cup Ids

\* Bodies of a create-client / create-user answer, by their JSON shape:
\*   malformed            not JSON at all
\*   nonobject            JSON whose top level is a list, string, number or null
\*   object               a JSON object; its "data" member is absent, null,
\*                        a non-object (string, list, number) or an object.
Bodies ==
    {[shape |-> "malformed", dataKind |-> "absent", dataId |-> None, topId |-> None],
     [shape |-> "nonobject", dataKind |-> "absent", dataId |-> None, topId |-> None]}
    \cup {[shape |-> "object", dataKind |-> k, dataId |-> None, topId |-> t] :
             k \in {"absent", "null", "nonobject"}, t \in IdVals}
    \cup {[shape |-> "object", dataKind |-> "object", dataId |-> d, topId |-> t] :
             d \in IdVals, t \in IdVals}

NoBody == [shape |-> "malformed", dataKind |-> "absent", dataId |-> None, topId |-> None]

\* A Location header value, as the list of its "/"-separated pieces
\* (str.split("/")): the empty string splits into one empty piece.
Locations ==
    {<<"">>} \cup {<<"admin", "realms", "perf", "users", u>> : u \in Ids}
             \cup {<<"admin", "realms", "perf", "users", u, "">> : u \in Ids}

\* The header is either absent or carries one of the values above.
LocationHeaders ==
    {[present |-> FALSE, value |-> <<"">>]} \cup {[present |-> TRUE, value |-> l] : l \in Locations}

NoLocation == [present |-> FALSE, value |-> <<"">>]

\* requests raised a RequestException (timeout, connection error).
TransportFailure ==
    [kind |-> "exception", status |-> 0, body |-> NoBody, location |-> NoLocation]

\* Answers to a FerrisKey call: the body matters, no Location is read.
FerrisKeyAnswers ==
    {TransportFailure} \cup
    {[kind |-> "response", status |-> s, body |-> b, location |-> NoLocation] :
        s \in Statuses, b \in Bodies}

\* Answers to a Keycloak call: the Location header matters, no body is read.
KeycloakAnswers ==
    {TransportFailure} \cup
    {[kind |-> "response", status |-> s, body |-> NoBody, location |-> l] :
        s \in Statuses, l \in LocationHeaders}

Answers(impl) ==
    IF Backend(impl) = "ferriskey" THEN FerrisKeyAnswers ELSE KeycloakAnswers

\* Tokens the server may issue.
Tokens == {"tok1", "tok2"}

\* Answers of the token endpoint: a transport failure, or a status with a body
\* that is malformed, a non-object JSON value, or an object whose access_token
\* is absent (None), empty or a token.
TokenAnswers ==
    {[kind |-> "exception", status |-> 0, shape |-> "malformed", access_token |-> None]}
    \cup {[kind |-> "response", status |-> s, shape |-> sh, access_token |-> None] :
             s \in Statuses, sh \in {"malformed", "nonobject"}}
    \cup {[kind |-> "response", status |-> s, shape |-> "object", access_token |-> t] :
             s \in Statuses, t \in {None, ""} \cup Tokens}

\* ------------------------------------------------------- results of a call

\* A call either returns a value or lets an exception propagate to its caller.
\* level is the console channel it reported on (print_success, print_warning,
\* print_error) or "none".
Returned(v, lvl) == [raised |-> FALSE, value |-> v, level |-> lvl]

Raised == [raised |-> TRUE, value |-> None, level |-> "none"]

\* requests.Response.raise_for_status: HTTPError for 4xx and 5xx only.
RaisesForStatus(status) == status >= 400 /\ status < 600

\* ------------------------------------------------------------ authentication

\* A get_admin_token without the "if not token" check: whatever .get gave is
\* returned.
get_admin_token_unchecked(resp) ==
    IF resp.kind = "exception" THEN [kind |-> "exit", token |-> None]
    ELSE IF RaisesForStatus(resp.status) THEN [kind |-> "exit", token |-> None]
    ELSE IF resp.shape = "malformed" THEN [kind |-> "exit", token |-> None]
    ELSE IF resp.shape = "nonobject" THEN [kind |-> "crash", token |-> None]
    ELSE [kind |-> "token", token |-> resp.access_token]

\* get_admin_token after the request was sent: the try block of every
\* implementation.  kind "token": returned; "exit": sys.exit(1); "crash": an
\* exception no handler catches (response.json() gave a non-object, whose .get
\* raises AttributeError), which ends the process with a traceback.
get_admin_token(resp) ==
    IF resp.kind = "exception" THEN [kind |-> "exit", token |-> None]
    ELSE IF RaisesForStatus(resp.status) THEN [kind |-> "exit", token |-> None]
    ELSE IF resp.shape = "malformed" THEN [kind |-> "exit", token |-> None]
    ELSE IF resp.shape = "nonobject" THEN [kind |-> "crash", token |-> None]
    ELSE IF ~Truthy(resp.access_token) THEN [kind |-> "exit", token |-> None]
    ELSE [kind |-> "token", token |-> resp.access_token]

\* ------------------------------------------------------------ create_realm

\* The shared shape of the status branches of create_realm: the success codes,
\* the "already exists" codes, everything else, and the except clause.
RealmOutcome(resp, success, exists) ==
    IF resp.kind = "exception" THEN Returned(FALSE, "error")
    ELSE IF resp.status \in success THEN Returned(TRUE, "success")
    ELSE IF resp.status \in exists THEN Returned(TRUE, "warning")
    ELSE Returned(FALSE, "error")

\* scripts/seed_test_data.py create_realm.
seed_create_realm(resp) == RealmOutcome(resp, {200, 201}, {400, 409})

\* FerrisKeyProvider.create_realm.
FerrisKeyProvider_create_realm(resp) == RealmOutcome(resp, {200, 201}, {400, 409})

\* scripts/seed_test_data_keycloak.py create_realm.
\* A script that takes a 409 for a failure.
seed_keycloak_create_realm_strict(resp) == RealmOutcome(resp, {200, 201, 204}, {})

seed_keycloak_create_realm(resp) == RealmOutcome(resp, {200, 201, 204}, {409})

\* A Keycloak adapter that took over FerrisKey's "already exists" codes.
KeycloakProvider_create_realm_400(resp) == RealmOutcome(resp, {200, 201, 204}, {400, 409})

\* A Keycloak adapter that reports a conflict as a failure.
KeycloakProvider_create_realm_strict(resp) == RealmOutcome(resp, {200, 201, 204}, {})

\* KeycloakProvider.create_realm.
KeycloakProvider_create_realm(resp) == RealmOutcome(resp, {200, 201, 204}, {409})

create_realm(impl, resp) ==
    CASE impl = "seed_test_data" -> seed_create_realm(resp)
      [] impl = "FerrisKeyProvider" -> FerrisKeyProvider_create_realm(resp)
      [] impl = "seed_test_data_keycloak" -> seed_keycloak_create_realm(resp)
      [] impl = "KeycloakProvider" -> KeycloakProvider_create_realm(resp)

\* ------------------------------------------------- identifier extraction

\* The exception, if any, that
\*     result = response.json()
\*     result.get("data", {}).get("id") or result.get("id")
\* raises on a body: JSONDecodeError when it is not JSON, AttributeError when
\* the top level or the "data" member is not an object (null has no .get).
JsonIdError(body) ==
    IF body.shape = "malformed" THEN "JSONDecodeError"
    ELSE IF body.shape = "nonobject" THEN "AttributeError"
    ELSE IF body.dataKind \in {"null", "nonobject"} THEN "AttributeError"
    ELSE "none"

\* The value of that expression when nothing is raised: data.id if truthy,
\* otherwise the top-level id (None when absent).
JsonId(body) ==
    Or(IF body.dataKind = "object" THEN body.dataId ELSE None, body.topId)

\* The scripts' parse: except (json.JSONDecodeError, KeyError) -> None.
ScriptParseId(body, lvl) ==
    IF JsonIdError(body) = "none" THEN Returned(JsonId(body), lvl)
    ELSE IF JsonIdError(body) \in {"JSONDecodeError", "KeyError"} THEN Returned(None, lvl)
    ELSE Raised

\* The adapters' parse: except Exception -> None.
ProviderParseId(body, lvl) ==
    IF JsonIdError(body) = "none" THEN Returned(JsonId(body), lvl) ELSE Returned(None, lvl)

\* An extraction that takes the first piece of the Location header.
LocationId_first(hdr) ==
    LET location == IF hdr.present THEN hdr.value ELSE <<"">>
    IN  IF location # <<"">> THEN location[1] ELSE None

\* Keycloak: response.headers.get("Location", "") and, if non-empty,
\* location.split("/")[-1].
LocationId(hdr) ==
    LET location == IF hdr.present THEN hdr.value ELSE <<"">>
    IN  IF location # <<"">> THEN location[Len(location)] ELSE None

\* ------------------------------------------------------------ create_client

\* scripts/seed_test_data.py create_client.
seed_create_client(resp) ==
    IF resp.kind = "exception" THEN Returned(None, "error")
    ELSE IF resp.status \in {200, 201} THEN ScriptParseId(resp.body, "success")
    ELSE IF resp.status \in {400, 409} THEN Returned(None, "warning")
    ELSE Returned(None, "error")

\* FerrisKeyProvider.create_client.
FerrisKeyProvider_create_client(resp) ==
    IF resp.kind = "exception" THEN Returned(None, "error")
    ELSE IF resp.status \in {200, 201} THEN ProviderParseId(resp.body, "success")
    ELSE IF resp.status \in {400, 409} THEN Returned(None, "warning")
    ELSE Returned(None, "error")

\* scripts/seed_test_data_keycloak.py create_client.
seed_keycloak_create_client(resp) ==
    IF resp.kind = "exception" THEN Returned(None, "error")
    ELSE IF resp.status \in {200, 201, 204} THEN Returned(LocationId(resp.location), "success")
    ELSE IF resp.status = 409 THEN Returned(None, "warning")
    ELSE Returned(None, "error")

\* Answers to the list-clients lookup (GET .../clients?clientId=...), by the
\* shape of the JSON: not JSON; a falsy value (empty list, null, {}, 0, "");
\* a list whose first element is an object with id firstId; a list whose first
\* element is not an object; a truthy value that is not a list.
LookupShapes == {"malformed", "falsy", "objects", "nonobjects", "nonlist"}

LookupAnswers ==
    {[kind |-> "exception", status |-> 0, shape |-> "malformed", firstId |-> None]}
    \cup {[kind |-> "response", status |-> s, shape |-> sh, firstId |-> None] :
             s \in Statuses, sh \in LookupShapes \ {"objects"}}
    \cup {[kind |-> "response", status |-> s, shape |-> "objects", firstId |-> i] :
             s \in Statuses, i \in IdVals}

\* KeycloakProvider._get_client_uuid.  response.json() failing raises
\* requests' JSONDecodeError, a RequestException, which the except clause
\* catches; clients[0].get on a non-list or a non-object element raises
\* KeyError, TypeError or AttributeError, which it does not.
KeycloakProvider_get_client_uuid(lookup) ==
    IF lookup.kind = "exception" THEN Returned(None, "none")
    ELSE IF lookup.status # 200 THEN Returned(None, "none")
    ELSE IF lookup.shape = "malformed" THEN Returned(None, "none")
    ELSE IF lookup.shape = "falsy" THEN Returned(None, "none")
    ELSE IF lookup.shape = "objects" THEN Returned(lookup.firstId, "none")
    ELSE Raised

\* A Keycloak adapter that gives up on a 409, as the script does.
KeycloakProvider_create_client_nolookup(resp, lookup) ==
    IF resp.kind = "exception" THEN Returned(None, "error")
    ELSE IF resp.status \in {200, 201, 204} THEN Returned(LocationId(resp.location), "success")
    ELSE IF resp.status = 409 THEN Returned(None, "warning")
    ELSE Returned(None, "error")

\* A Keycloak adapter that logs a 400 as "already exists" too.
KeycloakProvider_create_client_400(resp, lookup) ==
    IF resp.kind = "exception" THEN Returned(None, "error")
    ELSE IF resp.status \in {200, 201, 204} THEN Returned(LocationId(resp.location), "success")
    ELSE IF resp.status \in {400, 409} THEN
        LET found == KeycloakProvider_get_client_uuid(lookup)
        IN  IF found.raised THEN Raised ELSE Returned(found.value, "warning")
    ELSE Returned(None, "error")

\* KeycloakProvider.create_client; lookup answers the secondary request it
\* sends on a 409.
KeycloakProvider_create_client(resp, lookup) ==
    IF resp.kind = "exception" THEN Returned(None, "error")
    ELSE IF resp.status \in {200, 201, 204} THEN Returned(LocationId(resp.location), "success")
    ELSE IF resp.status = 409 THEN
        LET found == KeycloakProvider_get_client_uuid(lookup)
        IN  IF found.raised THEN Raised ELSE Returned(found.value, "warning")
    ELSE Returned(None, "error")

\* Only KeycloakProvider.create_client sends the lookup request, and only
\* after a 409: otherwise there is nothing the server answers.
Lookups(impl, resp) ==
    IF impl = "KeycloakProvider" /\ resp.kind = "response" /\ resp.status = 409
    THEN LookupAnswers
    ELSE {[kind |-> "exception", status |-> 0, shape |-> "malformed", firstId |-> None]}

create_client(impl, resp, lookup) ==
    CASE impl = "seed_test_data" -> seed_create_client(resp)
      [] impl = "FerrisKeyProvider" -> FerrisKeyProvider_create_client(resp)
      [] impl = "seed_test_data_keycloak" -> seed_keycloak_create_client(resp)
      [] impl = "KeycloakProvider" -> KeycloakProvider_create_client(resp, lookup)

\* -------------------------------------------------------------- create_user

\* scripts/seed_test_data.py create_user.
seed_create_user(resp) ==
    IF resp.kind = "exception" THEN Returned(None, "none")
    ELSE IF resp.status \in {200, 201} THEN ScriptParseId(resp.body, "none")
    ELSE Returned(None, "none")

\* FerrisKeyProvider.create_user.
FerrisKeyProvider_create_user(resp) ==
    IF resp.kind = "exception" THEN Returned(None, "none")
    ELSE IF resp.status \in {200, 201} THEN ProviderParseId(resp.body, "none")
    ELSE Returned(None, "none")

\* scripts/seed_test_data_keycloak.py create_user.
seed_keycloak_create_user(resp) ==
    IF resp.kind = "exception" THEN Returned(None, "none")
    ELSE IF resp.status \in {200, 201, 204} THEN Returned(LocationId(resp.location), "none")
    ELSE Returned(None, "none")

\* KeycloakProvider.create_user.
KeycloakProvider_create_user(resp) ==
    IF resp.kind = "exception" THEN Returned(None, "none")
    ELSE IF resp.status \in {200, 201, 204} THEN Returned(LocationId(resp.location), "none")
    ELSE Returned(None, "none")

create_user(impl, resp) ==
    CASE impl = "seed_test_data" -> seed_create_user(resp)
      [] impl = "FerrisKeyProvider" -> FerrisKeyProvider_create_user(resp)
      [] impl = "seed_test_data_keycloak" -> seed_keycloak_create_user(resp)
      [] impl = "KeycloakProvider" -> KeycloakProvider_create_user(resp)

\* -------------------------------------------------------- set_user_password

\* Answers to the reset-password request: only the status is read.
PasswordAnswers ==
    {[kind |-> "exception", status |-> 0]} \cup
    {[kind |-> "response", status |-> s] : s \in Statuses}

\* The reset-password request is sent for a truthy user_id only: otherwise
\* there is nothing the server answers.
PasswordsFor(user_id) ==
    IF Truthy(user_id) THEN PasswordAnswers ELSE {[kind |-> "exception", status |-> 0]}

\* set_user_password of all four implementations, once the request was sent
\* (a falsy user_id returns False before any request).
set_user_password(user_id, resp) ==
    IF ~Truthy(user_id) THEN FALSE
    ELSE IF resp.kind = "exception" THEN FALSE
    ELSE resp.status \in {200, 204}

\* ============================================================ seeding run
\* main() of scripts/seed_test_data.py and scripts/seed_test_data_keycloak.py.

VARIABLES
    impl,          \* the script that runs (seeding) or the implementation called (adapter calls)
    pc,            \* the step main() is at
    user_count,    \* CONFIG["user_count"]
    clients,       \* the descriptors of data/clients.json ([] when the file is absent)
    ci,            \* descriptors of the fixture already iterated over
    i,             \* the loop variable of the user loop (0 before the loop)
    created,       \* the created counter
    failed,        \* the failed counter
    admin_token,   \* the token main() holds (None before authentication)
    token_answer,  \* what the token endpoint answered
    requests,      \* the HTTP requests issued so far, in order, with what each call gave
    exit_code,     \* the process's exit code (-1 while it runs)
    srv_realms,    \* adapter calls: the realms that exist on the server
    srv_users,     \* the usernames of the users that exist on the server
    calls,         \* adapter calls: the calls made so far, with their results
    answer,        \* cleanup: what the operator typed at the confirmation prompt
    config,        \* the Config of a provider (admin client id and secret, client secret)
    token_request, \* the form data of the token request a provider sent
    dflt,          \* the last create_default_client call: its requests and its result
    usernames      \* the usernames derived so far by the user loop

seedVars ==
    <<pc, user_count, clients, ci, i, created, failed, admin_token, token_answer,
      requests, exit_code>>

adapterVars == <<srv_realms, srv_users, calls>>

extraVars == <<answer, config, token_request, dflt, usernames>>

vars == <<impl, seedVars, adapterVars, extraVars>>

\* One entry of requests: the operation, the index of the client or user it is
\* for (0 for token and realm), the bearer token and the user id it carried,
\* and the result of the call that issued it: the identifier create_user
\* returned, the boolean of create_realm and set_user_password, whether
\* create_client returned an identifier (main() drops it), whether
\* get_admin_token returned, or that the call let an exception propagate.
Req(op, idx, token, id, ret, ok, raised) ==
    [op |-> op, idx |-> idx, token |-> token, id |-> id, ret |-> ret, ok |-> ok,
     raised |-> raised]

\* The fixtures explored: j descriptors, each with its client_id.
Fixture(n) == [j \in 1..n |-> [client_id |-> IF j = 1 THEN "perf-client" ELSE "perf-client-b"]]

NoTokenAnswer ==
    [kind |-> "none", status |-> 0, shape |-> "malformed", access_token |-> None]

\* A main() that tries the realm again and again.
NextStepRetryRealm(step) ==
    CASE step = "Authenticate" -> "CreateRealm"
      [] step = "CreateRealm" -> "CreateRealm"
      [] step = "CreateClients" -> "CreateUsers"
      [] step = "CreateUsers" -> "Report"
      [] step = "Report" -> "Done"

\* A main() that fetches a fresh token once the realm is created.
NextStepReauth(step) ==
    CASE step = "Authenticate" -> "CreateRealm"
      [] step = "CreateRealm" -> "Authenticate"
      [] step = "CreateClients" -> "CreateUsers"
      [] step = "CreateUsers" -> "Report"
      [] step = "Report" -> "Done"

\* A main() that creates the clients before the realm.
NextStepClientsFirst(step) ==
    CASE step = "Authenticate" -> "CreateClients"
      [] step = "CreateClients" -> "CreateRealm"
      [] step = "CreateRealm" -> "CreateUsers"
      [] step = "CreateUsers" -> "Report"
      [] step = "Report" -> "Done"

\* The order of the steps of main(): "Step 1" to "Step 4", the summary, the end.
NextStep(step) ==
    CASE step = "Authenticate" -> "CreateRealm"
      [] step = "CreateRealm" -> "CreateClients"
      [] step = "CreateClients" -> "CreateUsers"
      [] step = "CreateUsers" -> "Report"
      [] step = "Report" -> "Done"

\* Counts a user as created as soon as create_user gave an identifier.
TallyIgnoringPassword(user_id, pwOk) ==
    [setPassword |-> Truthy(user_id),
     created |-> IF Truthy(user_id) THEN 1 ELSE 0,
     failed |-> IF Truthy(user_id) THEN 0 ELSE 1]

\* The body of the user loop after create_user returned: whether
\* set_user_password is called, and the increments of the two counters.
Tally(user_id, pwOk) ==
    [setPassword |-> Truthy(user_id),
     created |-> IF Truthy(user_id) /\ pwOk THEN 1 ELSE 0,
     failed |-> IF Truthy(user_id) /\ pwOk THEN 0 ELSE 1]

\* The values of the variables a specification does not use.
NoConfig == [admin_client_id |-> None, admin_client_secret |-> None, client_secret |-> None]

NoTokenRequest ==
    [sent |-> FALSE, client_id |-> None, has_client_secret |-> FALSE, client_secret |-> None]

NoDefaultClient ==
    [called |-> FALSE, raised |-> FALSE, client_uuid |-> None, uuid |-> None, secret |-> None,
     body_secret |-> None, gets |-> 0, posts |-> 0, got |-> None, generated |-> None]

ExtraUnused ==
    /\ answer = None
    /\ config = NoConfig
    /\ token_request = NoTokenRequest
    /\ dflt = NoDefaultClient
    /\ usernames = {}

Init ==
    /\ ExtraUnused
    /\ impl \in Scripts
    /\ pc = "Authenticate"
    /\ user_count \in 0..MaxUsers
    /\ clients \in {Fixture(n) : n \in 0..MaxClients}
    /\ ci = 0
    /\ i = 0
    /\ created = 0
    /\ failed = 0
    /\ admin_token = None
    /\ token_answer = NoTokenAnswer
    /\ requests = <<>>
    /\ exit_code = -1
    /\ srv_realms = {}
    /\ srv_users = {}
    /\ calls = <<>>

\* Step 1: admin_token = get_admin_token().
Authenticate ==
    /\ pc = "Authenticate"
    /\ \E resp \in TokenAnswers :
         LET out == get_admin_token(resp)
         IN  /\ token_answer' = resp
             /\ requests' = Append(requests,
                    Req("token", 0, None, None, out.token, out.kind = "token", out.kind = "crash"))
             /\ admin_token' = out.token
             /\ pc' = CASE out.kind = "token" -> NextStep(pc)
                        [] out.kind = "exit" -> "Exit"
                        [] out.kind = "crash" -> "Crashed"
             /\ exit_code' = IF out.kind = "token" THEN exit_code ELSE 1
    /\ UNCHANGED <<impl, user_count, clients, ci, i, created, failed, adapterVars, extraVars>>

\* Step 2: create_realm(admin_token, CONFIG["perf_realm"]); the result is dropped.
CreateRealm ==
    /\ pc = "CreateRealm"
    /\ \E resp \in Answers(impl) :
         LET out == create_realm(impl, resp)
         IN  requests' = Append(requests,
                 Req("create_realm", 0, admin_token, None, None, out.value, FALSE))
    /\ pc' = NextStep(pc)
    /\ UNCHANGED <<impl, user_count, clients, ci, i, created, failed, admin_token,
                   token_answer, exit_code, adapterVars, extraVars>>

\* Step 3, one iteration of  for client_data in clients: create_client(...) .
\* An exception create_client lets through leaves main() and ends the process.
CreateClient ==
    /\ pc = "CreateClients"
    /\ ci < Len(clients)
    /\ \E resp \in Answers(impl) : \E lookup \in Lookups(impl, resp) :
         LET out == create_client(impl, resp, lookup)
         IN  /\ requests' = Append(requests,
                    Req("create_client", ci + 1, admin_token, None, None, Truthy(out.value), out.raised))
             /\ pc' = IF out.raised THEN "Crashed" ELSE pc
             /\ exit_code' = IF out.raised THEN 1 ELSE exit_code
    /\ ci' = ci + 1
    /\ UNCHANGED <<impl, user_count, clients, i, created, failed, admin_token,
                   token_answer, adapterVars, extraVars>>

\* Step 3 ends when the fixture is exhausted; Step 4 starts with both counters 0.
ClientsDone ==
    /\ pc = "CreateClients"
    /\ ci = Len(clients)
    /\ pc' = NextStep(pc)
    /\ created' = 0
    /\ failed' = 0
    /\ UNCHANGED <<impl, user_count, clients, ci, i, admin_token, token_answer,
                   requests, exit_code, adapterVars, extraVars>>

\* Step 4, one iteration of  for i in range(1, user_count + 1) : create_user,
\* then set_user_password if it gave an identifier, then one counter.
CreateUser ==
    /\ pc = "CreateUsers"
    /\ i < user_count
    /\ \E resp \in Answers(impl) : \E pw \in PasswordsFor(create_user(impl, resp).value) :
         LET k == i + 1
             cu == create_user(impl, resp)
             pwOk == set_user_password(cu.value, pw)
             t == Tally(cu.value, pwOk)
             sent == Append(requests,
                        Req("create_user", k, admin_token, None, cu.value, FALSE, cu.raised))
         IN  IF cu.raised
             THEN /\ requests' = sent
                  /\ pc' = "Crashed"
                  /\ exit_code' = 1
                  /\ UNCHANGED <<created, failed>>
             ELSE /\ requests' =
                        IF t.setPassword
                        THEN Append(sent, Req("set_user_password", k, admin_token, cu.value,
                                              None, pwOk, FALSE))
                        ELSE sent
                  /\ created' = created + t.created
                  /\ failed' = failed + t.failed
                  /\ UNCHANGED <<pc, exit_code>>
    /\ i' = i + 1
    /\ UNCHANGED <<impl, user_count, clients, ci, admin_token, token_answer, adapterVars, extraVars>>

\* The user loop is exhausted: "Users created: ..., Skipped/Failed: ...".
UsersDone ==
    /\ pc = "CreateUsers"
    /\ i = user_count
    /\ pc' = NextStep(pc)
    /\ UNCHANGED <<impl, user_count, clients, ci, i, created, failed, admin_token,
                   token_answer, requests, exit_code, adapterVars, extraVars>>

\* The summary is printed and main() returns: exit code 0.
Report ==
    /\ pc = "Report"
    /\ pc' = NextStep(pc)
    /\ exit_code' = 0
    /\ UNCHANGED <<impl, user_count, clients, ci, i, created, failed, admin_token,
                   token_answer, requests, adapterVars, extraVars>>

Next ==
    \/ Authenticate
    \/ CreateRealm
    \/ CreateClient
    \/ ClientsDone
    \/ CreateUser
    \/ UsersDone
    \/ Report

Spec == Init /\ [][Next]_vars

\* ------------------------------------------------- claims on the seeding run

\* main() has ended: it returned, called sys.exit, or an exception left it.
RunEnded == pc \in {"Done", "Exit", "Crashed"}

\* The positions of requests.
Sent == DOMAIN requests

\* The token endpoint answered 2xx with well-formed JSON that carries no
\* access_token: an object without one (or with an empty one), or a JSON value
\* that is no object.
NoAccessTokenAnswer ==
    /\ token_answer.kind = "response"
    /\ token_answer.status \in 200..299
    /\ token_answer.shape \in {"object", "nonobject"}
    /\ ~Truthy(token_answer.access_token)

\* C1: when the token endpoint answers 2xx with well-formed JSON that has no
\* (or an empty) access_token, the run has ended at the Authenticate step with
\* a non-zero exit code and the token request is the only request ever issued.
C1_NoTokenStopsRun ==
    NoAccessTokenAnswer =>
        /\ pc \in {"Exit", "Crashed"}
        /\ exit_code = 1
        /\ admin_token = None
        /\ \A p \in Sent : requests[p].op = "token"

C1_Witness ==
    /\ NoAccessTokenAnswer
    /\ token_answer.status = 200
    /\ token_answer.shape = "object"
    /\ pc = "Exit"
    /\ Len(requests) = 1

\* The token endpoint did not answer (transport failure) or answered with a
\* status outside 2xx.
TokenEndpointFailed ==
    \/ token_answer.kind = "exception"
    \/ token_answer.kind = "response" /\ token_answer.status \notin 200..299

\* C2: a transport failure or a non-2xx status on the token endpoint is fatal:
\* no token is returned, the process has ended with a non-zero exit code, and
\* no later step has issued a request.
C2_TokenFailureFatal ==
    TokenEndpointFailed =>
        /\ admin_token = None
        /\ pc \in {"Exit", "Crashed"}
        /\ exit_code = 1
        /\ \A p \in Sent : requests[p].op = "token"

\* The create-user request for index k was issued.
UserAttempted(k) ==
    \E p \in Sent : requests[p].op = "create_user" /\ requests[p].idx = k

\* The create-user call for index k gave no identifier (or raised), or its
\* set-password call failed.
UserFailedAt(k) ==
    \E p \in Sent :
        /\ requests[p].idx = k
        /\ \/ requests[p].op = "create_user"
              /\ (requests[p].raised \/ ~Truthy(requests[p].ret))
           \/ requests[p].op = "set_user_password" /\ ~requests[p].ok

\* The create-user call for index k gave an identifier and its set-password
\* call succeeded.
UserCreatedAt(k) ==
    /\ \E p \in Sent : /\ requests[p].op = "create_user"
                       /\ requests[p].idx = k
                       /\ ~requests[p].raised
                       /\ Truthy(requests[p].ret)
    /\ \E p \in Sent : /\ requests[p].op = "set_user_password"
                       /\ requests[p].idx = k
                       /\ requests[p].ok

\* The loop body for index k ran to its end (create_user did not raise).
UserProcessed(k) ==
    \E p \in Sent : /\ requests[p].op = "create_user"
                    /\ requests[p].idx = k
                    /\ ~requests[p].raised

\* C3: batch user creation isolates failures: when the run has ended, a failed
\* index k has not kept any other index of 1..N from being attempted, and the
\* failed counter holds exactly one increment for each failed index.
C3_BatchIsolation ==
    RunEnded =>
        /\ \A k \in 1..user_count :
             UserFailedAt(k) => \A j \in 1..user_count : UserAttempted(j)
        /\ failed = Cardinality({k \in 1..user_count : UserFailedAt(k)})

\* C4: between iterations of the user loop created + failed = i; created counts
\* exactly the indices whose create-user gave an identifier and whose
\* set-password succeeded, failed exactly the other processed indices (a user
\* created without its password is among them); at Report and after,
\* created + failed = N.
C4_Counters ==
    /\ pc \in {"CreateUsers", "Report", "Done"} => created + failed = i
    /\ created = Cardinality({k \in 1..user_count : UserCreatedAt(k)})
    /\ failed = Cardinality({k \in 1..user_count : UserProcessed(k) /\ ~UserCreatedAt(k)})
    /\ pc \in {"Report", "Done"} => created + failed = user_count

C4_Witness ==
    /\ pc = "Done"
    /\ user_count = 2
    /\ created = 1
    /\ failed = 1
    /\ \E p \in Sent : requests[p].op = "set_user_password" /\ ~requests[p].ok

\* The create-user requests, in the order they were issued.
UserRequests == SelectSeq(requests, LAMBDA r : r.op = "create_user")

\* C5: a run that passed authentication has, at its end, issued exactly N
\* create-user requests, for the indices 1..N in this order; each one that
\* returned an identifier is directly followed by the one set-password request
\* of its index, carrying that identifier, and no other set-password request
\* exists.
C5_UserCalls ==
    (RunEnded /\ Truthy(admin_token)) =>
        /\ Len(UserRequests) = user_count
        /\ \A k \in 1..Len(UserRequests) : UserRequests[k].idx = k
        /\ \A p \in Sent :
             requests[p].op = "create_user" =>
                IF ~requests[p].raised /\ Truthy(requests[p].ret)
                THEN /\ p + 1 \in Sent
                     /\ requests[p + 1].op = "set_user_password"
                     /\ requests[p + 1].idx = requests[p].idx
                     /\ requests[p + 1].id = requests[p].ret
                ELSE p + 1 \in Sent => requests[p + 1].op # "set_user_password"
        /\ \A p \in Sent :
             requests[p].op = "set_user_password" =>
                p > 1 /\ requests[p - 1].op = "create_user"

\* The place of an operation in the order the spec gives.
Rank(op) ==
    CASE op = "token" -> 0
      [] op = "create_realm" -> 1
      [] op = "create_client" -> 2
      [] op \in {"create_user", "set_user_password"} -> 3

\* C6: in the requests of one run the token request precedes all others, the
\* create-realm request precedes every create-client request, and every
\* create-client request precedes every create-user and set-password request.
C6_StepOrder ==
    \A p, q \in Sent :
        Rank(requests[p].op) < Rank(requests[q].op) => p < q

C6_Witness ==
    /\ pc = "Done"
    /\ \E p \in Sent : requests[p].op = "create_realm"
    /\ \E p \in Sent : requests[p].op = "create_client" /\ requests[p].idx = 2
    /\ \E p \in Sent : requests[p].op = "set_user_password" /\ requests[p].idx = 2

\* C7: once a token is obtained nothing halts the run: when it has ended it is
\* at Done with exit code 0, every fixture client and every user index was
\* attempted, and the create-realm request was issued.
C7_OnlyAuthenticateHalts ==
    (RunEnded /\ Truthy(admin_token)) =>
        /\ pc = "Done"
        /\ exit_code = 0
        /\ \E p \in Sent : requests[p].op = "create_realm"
        /\ \A j \in 1..Len(clients) :
             \E p \in Sent : requests[p].op = "create_client" /\ requests[p].idx = j
        /\ \A k \in 1..user_count : UserAttempted(k)

\* ============================================================ adapter calls
\* The operations called one at a time, against a server that keeps realms.

\* Realm names a caller may pass.
RealmNames == {"perf", "perf-realm"}

\* The status a server answers a create-realm request for an existing realm
\* with: the codes the implementation reports as "already exists".
AlreadyExistsStatuses(backend) ==
    IF backend = "ferriskey" THEN {400, 409} ELSE {409}

\* The status a server answers a create-realm request it carried out with.
CreatedStatuses(backend) ==
    IF backend = "ferriskey" THEN {200, 201} ELSE {201}

\* One entry of calls: the function, the realm name (create_realm), whether the
\* server answered according to its state, what it answered, and the result:
\* the boolean (create_realm), the identifier (create_client), the console
\* channel, and whether an exception propagated.
\* The functions that return a bool; the others return an identifier or None.
BoolFns == {"create_realm", "delete_realm", "set_user_password"}

Call(fn, name, honest, resp, out) ==
    [fn |-> fn, name |-> name, honest |-> honest, kind |-> resp.kind, status |-> resp.status,
     ok |-> IF fn \in BoolFns /\ ~out.raised THEN out.value ELSE FALSE,
     id |-> IF fn \in BoolFns \/ out.raised THEN None ELSE out.value,
     level |-> out.level, raised |-> out.raised]

AdapterInit ==
    /\ ExtraUnused
    /\ impl \in Impls
    /\ pc = "Adapter"
    /\ user_count = 0
    /\ clients = <<>>
    /\ ci = 0
    /\ i = 0
    /\ created = 0
    /\ failed = 0
    /\ admin_token = "tok1"
    /\ token_answer = NoTokenAnswer
    /\ requests = <<>>
    /\ exit_code = -1
    /\ srv_realms = {}
    /\ srv_users = {}
    /\ calls = <<>>

\* create_realm(token, name) against a server that creates the realm if it
\* does not exist and answers with an "already exists" status if it does.
CallCreateRealm ==
    /\ Len(calls) < MaxCalls
    /\ \E name \in RealmNames :
         \E s \in IF name \in srv_realms THEN AlreadyExistsStatuses(Backend(impl))
                                         ELSE CreatedStatuses(Backend(impl)) :
           LET resp == [kind |-> "response", status |-> s, body |-> NoBody,
                        location |-> NoLocation]
           IN  /\ calls' = Append(calls, Call("create_realm", name, TRUE, resp,
                                              create_realm(impl, resp)))
               /\ srv_realms' = srv_realms \cup {name}
    /\ UNCHANGED <<impl, seedVars, extraVars, srv_users>>

\* create_realm(token, name) answered with any status, or not at all.
CallCreateRealmAnyAnswer ==
    /\ Len(calls) < MaxCalls
    /\ \E name \in RealmNames, resp \in Answers(impl) :
         /\ resp.body = NoBody
         /\ resp.location = NoLocation
         /\ calls' = Append(calls, Call("create_realm", name, FALSE, resp,
                                        create_realm(impl, resp)))
    /\ UNCHANGED <<impl, seedVars, extraVars, srv_realms, srv_users>>

\* create_client(token, realm, client_data) answered with any status, body and
\* Location header, or not at all.
CallCreateClient ==
    /\ Len(calls) < MaxCalls
    /\ \E resp \in Answers(impl) : \E lookup \in Lookups(impl, resp) :
         calls' = Append(calls, Call("create_client", None, FALSE, resp,
                                     create_client(impl, resp, lookup)))
    /\ UNCHANGED <<impl, seedVars, extraVars, srv_realms, srv_users>>

\* ------------------------------------------------ claims on the adapter calls

\* The positions of calls.
Called == DOMAIN calls

\* C8: create_realm is idempotent: against a server that creates the realm on
\* the first request and answers a later request for the same name with its
\* "already exists" status, two calls with the same name both return True.
C8_RealmIdempotent ==
    \A p, q \in Called :
        (/\ p < q
         /\ calls[p].fn = "create_realm" /\ calls[p].honest
         /\ calls[q].fn = "create_realm" /\ calls[q].honest
         /\ calls[p].name = calls[q].name)
        => calls[p].ok /\ calls[q].ok

C8_Witness ==
    /\ Len(calls) = 2
    /\ Backend(impl) = "keycloak"
    /\ calls[1].fn = "create_realm" /\ calls[1].honest /\ calls[1].status = 201
    /\ calls[2].fn = "create_realm" /\ calls[2].honest /\ calls[2].status = 409
    /\ calls[1].name = calls[2].name
    /\ calls[2].ok

\* C9 as stated: for both backends create_realm returns True for 400 and 409,
\* True for 200 and 201 (and 204 for Keycloak), False for every other status.
C9_RealmStatusesAsStated ==
    \A p \in Called :
        (calls[p].fn = "create_realm" /\ calls[p].kind = "response") =>
            (calls[p].ok <=>
                calls[p].status \in
                    {200, 201, 400, 409}
                        \cup (IF Backend(impl) = "keycloak" THEN {204} ELSE {}))

\* C9 as amended: create_realm returns True exactly for 200, 201 and 409, for
\* 400 on FerrisKey only, and for 204 on Keycloak only; for every other status
\* (400 on Keycloak among them) and for a transport exception it returns False.
C9_RealmStatuses ==
    \A p \in Called :
        calls[p].fn = "create_realm" =>
            (calls[p].ok <=>
                /\ calls[p].kind = "response"
                /\ calls[p].status \in
                      {200, 201, 409}
                          \cup (IF Backend(impl) = "keycloak" THEN {204} ELSE {400}))

C9_Witness ==
    \E p \in Called :
        /\ calls[p].fn = "create_realm"
        /\ Backend(impl) = "keycloak"
        /\ calls[p].kind = "response"
        /\ calls[p].status = 400
        /\ ~calls[p].ok

\* C10 as stated: for both backends create_client treats a 400 or 409 answer
\* as "already exists" and not as a failure, unlike any other non-success
\* status: it is not reported as an error.
C10_ClientExistsAsStated ==
    \A p \in Called :
        (/\ calls[p].fn = "create_client"
         /\ calls[p].kind = "response"
         /\ calls[p].status \in {400, 409})
        => calls[p].level # "error"

\* The statuses create_client of an implementation reports as "already exists".
ClientExistsStatuses == IF Backend(impl) = "keycloak" THEN {409} ELSE {400, 409}

\* The statuses create_client of an implementation reports as created.
ClientCreatedStatuses == IF Backend(impl) = "keycloak" THEN {200, 201, 204} ELSE {200, 201}

\* C10 as amended: create_client reports 409, and on FerrisKey also 400, as
\* "already exists" with a warning; on Keycloak a 400 is a failure like 500.
\* An "already exists" answer yields no identifier, the same value as a
\* failure, except in KeycloakProvider, which returns what its lookup found.
\* Every other status outside the created ones, and a transport exception,
\* is reported as an error and yields no identifier.
C10_ClientExists ==
    \A p \in Called :
        (calls[p].fn = "create_client" /\ ~calls[p].raised) =>
            /\ (calls[p].kind = "response" /\ calls[p].status \in ClientExistsStatuses)
                 => /\ calls[p].level = "warning"
                    /\ impl # "KeycloakProvider" => calls[p].id = None
            /\ (calls[p].kind = "response" /\ calls[p].status \in ClientCreatedStatuses)
                 => calls[p].level = "success"
            /\ (\/ calls[p].kind = "exception"
                \/ calls[p].status \notin ClientExistsStatuses \cup ClientCreatedStatuses)
                 => calls[p].level = "error" /\ calls[p].id = None

C10_Witness ==
    /\ Len(calls) = 2
    /\ impl = "KeycloakProvider"
    /\ calls[1].fn = "create_client" /\ calls[1].status = 400 /\ calls[1].level = "error"
    /\ calls[2].fn = "create_client" /\ calls[2].status = 409 /\ calls[2].level = "warning"
    /\ calls[2].id = "u1"

\* ============================================================ cleanup run
\* scripts/cleanup_test_data_keycloak.py.

\* What input() gives at the prompt: a line, as the list of its characters,
\* or KeyboardInterrupt / EOFError.
Lines ==
    {<<>>, <<"y">>, <<"Y">>, <<"n">>, <<"y", "e", "s">>, <<"Y", "E", "S">>, <<"Y", "e", "s">>,
     <<" ", "y", " ">>, <<"y", "e", "s", " ">>, <<"n", "o">>, <<"y", "e">>, <<"y", " ", "e", "s">>,
     <<"y", "e", "s", "s">>, <<" ">>}

Inputs ==
    {[kind |-> "line", text |-> l] : l \in Lines}
    \cup {[kind |-> k, text |-> <<>>] : k \in {"KeyboardInterrupt", "EOFError"}}

\* str.lower() on one character.
LowerChar(c) ==
    CASE c = "Y" -> "y"
      [] c = "E" -> "e"
      [] c = "S" -> "s"
      [] OTHER -> c

\* str.lower().
Lower(text) == [k \in 1..Len(text) |-> LowerChar(text[k])]

\* str.strip(): leading and trailing whitespace removed.
RECURSIVE Strip(_)
Strip(text) ==
    IF text = <<>> THEN text
    ELSE IF Head(text) = " " THEN Strip(Tail(text))
    ELSE IF text[Len(text)] = " " THEN Strip(SubSeq(text, 1, Len(text) - 1))
    ELSE text

\* A confirm_deletion that takes the bare Enter key for a yes.
confirm_deletion_default_yes(input) ==
    IF input.kind # "line" THEN FALSE
    ELSE Lower(Strip(input.text)) \in {<<>>, <<"y">>, <<"y", "e", "s">>}

\* confirm_deletion.
confirm_deletion(input) ==
    IF input.kind # "line" THEN FALSE
    ELSE Lower(Strip(input.text)) \in {<<"y">>, <<"y", "e", "s">>}

\* A delete_realm that lets an unexpected status end the process.
delete_realm_fatal(resp) ==
    IF resp.kind = "exception" THEN Returned(FALSE, "error")
    ELSE IF resp.status \in {200, 204} THEN Returned(TRUE, "success")
    ELSE IF resp.status = 404 THEN Returned(TRUE, "warning")
    ELSE Raised

\* A delete_realm that reports a realm that is not there as a failure.
delete_realm_strict(resp) ==
    IF resp.kind = "exception" THEN Returned(FALSE, "error")
    ELSE IF resp.status \in {200, 204} THEN Returned(TRUE, "success")
    ELSE Returned(FALSE, "error")

\* delete_realm.
delete_realm(resp) ==
    IF resp.kind = "exception" THEN Returned(FALSE, "error")
    ELSE IF resp.status \in {200, 204} THEN Returned(TRUE, "success")
    ELSE IF resp.status = 404 THEN Returned(TRUE, "warning")
    ELSE Returned(FALSE, "error")

\* The status a Keycloak server answers a delete-realm request with: it
\* deletes an existing realm, and has nothing to delete otherwise.
DeleteStatuses(exists) == IF exists THEN {200, 204} ELSE {404}

\* CONFIG["perf_realm"] of the cleanup script.
CleanupRealm == "perf"

CleanupInit ==
    /\ impl = "cleanup_test_data_keycloak"
    /\ pc = "ConfirmIntent"
    /\ answer \in Inputs
    /\ user_count = 0
    /\ clients = <<>>
    /\ ci = 0
    /\ i = 0
    /\ created = 0
    /\ failed = 0
    /\ admin_token = None
    /\ token_answer = NoTokenAnswer
    /\ requests = <<>>
    /\ exit_code = -1
    /\ srv_realms \in {{}, {CleanupRealm}}
    /\ srv_users = {}
    /\ calls = <<>>
    /\ config = NoConfig
    /\ token_request = NoTokenRequest
    /\ dflt = NoDefaultClient
    /\ usernames = {}

\* main(): if not confirm_deletion(): print("Cleanup cancelled."); sys.exit(0).
ConfirmIntent ==
    /\ pc = "ConfirmIntent"
    /\ IF confirm_deletion(answer)
       THEN pc' = "Authenticate" /\ UNCHANGED exit_code
       ELSE pc' = "Cancelled" /\ exit_code' = 0
    /\ UNCHANGED <<impl, user_count, clients, ci, i, created, failed, admin_token,
                   token_answer, requests, adapterVars, extraVars>>

\* Step 1: admin_token = get_admin_token().
CleanupAuthenticate ==
    /\ pc = "Authenticate"
    /\ \E resp \in TokenAnswers :
         LET out == get_admin_token(resp)
         IN  /\ token_answer' = resp
             /\ requests' = Append(requests,
                    Req("token", 0, None, None, out.token, out.kind = "token", out.kind = "crash"))
             /\ admin_token' = out.token
             /\ pc' = CASE out.kind = "token" -> "DeleteRealm"
                        [] out.kind = "exit" -> "Exit"
                        [] out.kind = "crash" -> "Crashed"
             /\ exit_code' = IF out.kind = "token" THEN exit_code ELSE 1
    /\ UNCHANGED <<impl, user_count, clients, ci, i, created, failed, adapterVars, extraVars>>

\* Step 2: delete_realm(admin_token, CONFIG["perf_realm"]), its result dropped,
\* then "=== Cleanup Complete ===" and main() returns.  The server either
\* answers by its state (and deletes the realm) or with any status, or the
\* transport fails.
DeleteRealm ==
    /\ pc = "DeleteRealm"
    /\ \E honest \in BOOLEAN :
         \E resp \in IF honest
                     THEN {[kind |-> "response", status |-> st, body |-> NoBody,
                            location |-> NoLocation] :
                              st \in DeleteStatuses(CleanupRealm \in srv_realms)}
                     ELSE {r \in KeycloakAnswers : r.location = NoLocation} :
           LET out == delete_realm(resp)
           IN  /\ requests' = Append(requests,
                      Req("delete_realm", 0, admin_token, None, None, out.value, out.raised))
               /\ calls' = Append(calls, Call("delete_realm", CleanupRealm, honest, resp, out))
               /\ srv_realms' = IF honest THEN srv_realms \ {CleanupRealm} ELSE srv_realms
               /\ pc' = IF out.raised THEN "Crashed" ELSE "Done"
               /\ exit_code' = IF out.raised THEN 1 ELSE 0
    /\ UNCHANGED <<impl, user_count, clients, ci, i, created, failed, admin_token,
                   token_answer, srv_users, extraVars>>

\* The operator runs the script again, against the same server.
CleanupAgain ==
    /\ pc \in {"Done", "Cancelled", "Exit", "Crashed"}
    /\ Len(calls) < MaxCalls
    /\ pc' = "ConfirmIntent"
    /\ answer' \in Inputs
    /\ admin_token' = None
    /\ token_answer' = NoTokenAnswer
    /\ requests' = <<>>
    /\ exit_code' = -1
    /\ UNCHANGED <<impl, user_count, clients, ci, i, created, failed, adapterVars,
                   config, token_request, dflt, usernames>>

CleanupNext ==
    \/ ConfirmIntent
    \/ CleanupAuthenticate
    \/ DeleteRealm
    \/ CleanupAgain

CleanupSpec == CleanupInit /\ [][CleanupNext]_vars

\* ------------------------------------------------------------ cleanup claims

\* C11: delete_realm returns True exactly when the server answered 200, 204 or
\* 404, and False for every other status and for a transport exception; so
\* two deletions in a row of the same realm, against a server that deletes the
\* realm on the first and finds nothing on the second, both report success.
C11_DeleteIdempotent ==
    /\ \A p \in Called :
         calls[p].fn = "delete_realm"
         => /\ ~calls[p].raised
            /\ calls[p].ok <=> (calls[p].kind = "response" /\ calls[p].status \in {200, 204, 404})
    /\ \A p, q \in Called :
         (/\ p < q
          /\ calls[p].fn = "delete_realm" /\ calls[p].honest
          /\ calls[q].fn = "delete_realm" /\ calls[q].honest
          /\ calls[p].name = calls[q].name)
         => calls[p].ok /\ calls[q].ok

\* The same realm deleted twice in a row: 204 first, 404 second, both True.
C11_Witness ==
    \E p, q \in Called :
        /\ q = p + 1
        /\ calls[p].fn = "delete_realm" /\ calls[p].honest /\ calls[p].status = 204
        /\ calls[q].fn = "delete_realm" /\ calls[q].honest /\ calls[q].status = 404
        /\ calls[p].ok /\ calls[q].ok

\* The answer at the prompt is 'y' or 'yes' once trimmed and lower-cased.
Affirmative ==
    /\ answer.kind = "line"
    /\ Lower(Strip(answer.text)) \in {<<"y">>, <<"y", "e", "s">>}

\* C12: with any other answer at the prompt (an interrupt and end-of-input
\* included) the run is either still at the prompt or has been cancelled with
\* exit code 0, and it has sent no request: no token request, no delete-realm.
C12_CancelBeforeRequests ==
    (impl = "cleanup_test_data_keycloak" /\ ~Affirmative)
    => /\ pc \in {"ConfirmIntent", "Cancelled"}
       /\ pc = "Cancelled" => exit_code = 0
       /\ requests = <<>>
       /\ admin_token = None

\* A run cancelled by a plain Enter, and one cancelled by an interrupt.
C12_Witness ==
    /\ pc = "Cancelled"
    /\ exit_code = 0
    /\ requests = <<>>
    /\ answer.kind = "line" /\ answer.text = <<>>

\* ======================================================== provider adapters
\* scripts/lib: config.py, base_provider.py, ferriskey_provider.py,
\* keycloak_provider.py.

\* An environment variable's text, as the list of its characters; unset
\* reads as the empty text (os.getenv(name, "")).
EnvTexts == {<<>>, <<" ">>, <<"k">>, <<" ", "k", " ">>}

\* The str of a stripped text.
Str(text) == IF text = <<>> THEN "" ELSE "k"

\* load_config:  v = os.getenv(NAME, "").strip();  v if v else None.
LoadOptional(text) ==
    LET v == Str(Strip(text)) IN IF Truthy(v) THEN v ELSE None

\* load_config, for the three optional settings read here.
load_config(env) ==
    [admin_client_id |-> LoadOptional(env.ADMIN_CLIENT_ID),
     admin_client_secret |-> LoadOptional(env.ADMIN_CLIENT_SECRET),
     client_secret |-> LoadOptional(env.CLIENT_SECRET)]

Environments ==
    [ADMIN_CLIENT_ID : EnvTexts, ADMIN_CLIENT_SECRET : EnvTexts, CLIENT_SECRET : EnvTexts]

\* Secrets a server may hold for a client.
Secrets == {"s1"}

\* What .get("secret") / .get("value") may yield.
SecretVals == {None, ""} \cup Secrets

\* Bodies of a client-fetch / client-secret answer, by their JSON shape (as
\* Bodies above); top is the top-level "secret" (FerrisKey) or "value"
\* (Keycloak) member, dataSecret the "secret" member of "data".
SecretBodies ==
    {[shape |-> "malformed", dataKind |-> "absent", dataSecret |-> None, top |-> None],
     [shape |-> "nonobject", dataKind |-> "absent", dataSecret |-> None, top |-> None]}
    \cup {[shape |-> "object", dataKind |-> k, dataSecret |-> None, top |-> t] :
             k \in {"absent", "null", "nonobject"}, t \in SecretVals}
    \cup {[shape |-> "object", dataKind |-> "object", dataSecret |-> d, top |-> t] :
             d \in SecretVals, t \in SecretVals}

NoSecretBody == [shape |-> "malformed", dataKind |-> "absent", dataSecret |-> None, top |-> None]

NoSecretAnswer == [kind |-> "exception", status |-> 0, body |-> NoSecretBody]

\* Answers to a secret request; only a 200 has its body read.
SecretAnswers(provider) ==
    {NoSecretAnswer}
    \cup {[kind |-> "response", status |-> st, body |-> NoSecretBody] : st \in Statuses \ {200}}
    \cup {[kind |-> "response", status |-> 200, body |-> b] :
             b \in IF provider = "FerrisKeyProvider" THEN SecretBodies
                   ELSE {c \in SecretBodies : c.dataKind = "absent"}}

\* A get_client_secret that gives None for every body it cannot read.
FerrisKeyProvider_get_client_secret_guarded(resp) ==
    IF resp.kind = "exception" THEN Returned(None, "none")
    ELSE IF resp.status # 200 THEN Returned(None, "none")
    ELSE IF resp.body.shape # "object" THEN Returned(None, "none")
    ELSE IF resp.body.dataKind \in {"null", "nonobject"} THEN Returned(None, "none")
    ELSE Returned(Or(IF resp.body.dataKind = "object" THEN resp.body.dataSecret ELSE None,
                     resp.body.top), "none")

\* FerrisKeyProvider.get_client_secret:
\*     data.get("data", {}).get("secret") or data.get("secret")
\* under  except requests.exceptions.RequestException: pass .  A body that is
\* not JSON raises requests' JSONDecodeError, which is caught; a top level or
\* a "data" member that is no object raises AttributeError, which is not.
FerrisKeyProvider_get_client_secret(resp) ==
    IF resp.kind = "exception" THEN Returned(None, "none")
    ELSE IF resp.status # 200 THEN Returned(None, "none")
    ELSE IF resp.body.shape = "malformed" THEN Returned(None, "none")
    ELSE IF resp.body.shape = "nonobject" THEN Raised
    ELSE IF resp.body.dataKind \in {"null", "nonobject"} THEN Raised
    ELSE Returned(Or(IF resp.body.dataKind = "object" THEN resp.body.dataSecret ELSE None,
                     resp.body.top), "none")

\* KeycloakProvider.get_client_secret:  response.json().get("value") .
KeycloakProvider_get_client_secret(resp) ==
    IF resp.kind = "exception" THEN Returned(None, "none")
    ELSE IF resp.status # 200 THEN Returned(None, "none")
    ELSE IF resp.body.shape = "malformed" THEN Returned(None, "none")
    ELSE IF resp.body.shape = "nonobject" THEN Raised
    ELSE Returned(resp.body.top, "none")

\* KeycloakProvider.generate_client_secret: the same, on the POST's answer.
KeycloakProvider_generate_client_secret(resp) ==
    IF resp.kind = "exception" THEN Returned(None, "none")
    ELSE IF resp.status # 200 THEN Returned(None, "none")
    ELSE IF resp.body.shape = "malformed" THEN Returned(None, "none")
    ELSE IF resp.body.shape = "nonobject" THEN Raised
    ELSE Returned(resp.body.top, "none")

get_client_secret(provider, resp) ==
    IF provider = "FerrisKeyProvider" THEN FerrisKeyProvider_get_client_secret(resp)
    ELSE KeycloakProvider_get_client_secret(resp)

\* The outcome of one create_default_client call: whether it raised, the
\* identifier create_client returned, the (uuid, secret) pair returned, the
\* client_secret member of the creation request's body (None: no such
\* member), the number of GET and POST secret requests sent, and what each
\* yielded.
DefaultClient(raised, client_uuid, uuid, secret, body_secret, gets, posts, got, generated) ==
    [called |-> TRUE, raised |-> raised, client_uuid |-> client_uuid, uuid |-> uuid, secret |-> secret,
     body_secret |-> body_secret, gets |-> gets, posts |-> posts, got |-> got,
     generated |-> generated]

\* IAMProvider.create_default_client, the default composition: the configured
\* secret goes into the descriptor and comes back if the client was client_uuid.
IAMProvider_create_default_client(cfg, client_uuid) ==
    IF client_uuid.raised
    THEN DefaultClient(TRUE, None, None, None, cfg.client_secret, 0, 0, None, None)
    ELSE DefaultClient(FALSE, client_uuid.value, client_uuid.value,
                       IF Truthy(client_uuid.value) THEN cfg.client_secret ELSE None,
                       cfg.client_secret, 0, 0, None, None)

\* A FerrisKey adapter that does not override the default composition.
FerrisKeyProvider_create_default_client_inherited(cfg, resp, sget) ==
    IAMProvider_create_default_client(cfg, FerrisKeyProvider_create_client(resp))

\* FerrisKeyProvider.create_default_client; sget answers its GET.
FerrisKeyProvider_create_default_client(cfg, resp, sget) ==
    LET client_uuid == FerrisKeyProvider_create_client(resp)
        got == FerrisKeyProvider_get_client_secret(sget)
    IN  IF ~Truthy(client_uuid.value)
        THEN DefaultClient(FALSE, client_uuid.value, None, None, None, 0, 0, None, None)
        ELSE IF got.raised
        THEN DefaultClient(TRUE, client_uuid.value, None, None, None, 1, 0, None, None)
        ELSE DefaultClient(FALSE, client_uuid.value, client_uuid.value, got.value, None, 1, 0,
                           got.value, None)

\* KeycloakProvider.create_default_client; lookup answers the lookup after a
\* 409, sget its GET and sgen its POST.
KeycloakProvider_create_default_client(cfg, resp, lookup, sget, sgen) ==
    LET client_uuid == KeycloakProvider_create_client(resp, lookup)
        got == KeycloakProvider_get_client_secret(sget)
        generated == KeycloakProvider_generate_client_secret(sgen)
    IN  IF client_uuid.raised
        THEN DefaultClient(TRUE, None, None, None, None, 0, 0, None, None)
        ELSE IF ~Truthy(client_uuid.value)
        THEN DefaultClient(FALSE, client_uuid.value, None, None, None, 0, 0, None, None)
        ELSE IF got.raised
        THEN DefaultClient(TRUE, client_uuid.value, None, None, None, 1, 0, None, None)
        ELSE IF Truthy(got.value)
        THEN DefaultClient(FALSE, client_uuid.value, client_uuid.value, got.value, None, 1, 0,
                           got.value, None)
        ELSE IF generated.raised
        THEN DefaultClient(TRUE, client_uuid.value, None, None, None, 1, 1, got.value, None)
        ELSE DefaultClient(FALSE, client_uuid.value, client_uuid.value, generated.value, None, 1, 1,
                           got.value, generated.value)

\* The secret requests a call sends: the GET only once create_client gave an
\* identifier, the POST only from Keycloak's adapter after a GET without one.
GetAnswers(provider, client_uuid) ==
    IF ~client_uuid.raised /\ Truthy(client_uuid.value) THEN SecretAnswers(provider)
    ELSE {NoSecretAnswer}

PostAnswers(provider, client_uuid, sget) ==
    IF /\ provider = "KeycloakProvider"
       /\ ~client_uuid.raised /\ Truthy(client_uuid.value)
       /\ ~KeycloakProvider_get_client_secret(sget).raised
       /\ ~Truthy(KeycloakProvider_get_client_secret(sget).value)
    THEN SecretAnswers(provider)
    ELSE {NoSecretAnswer}

\* A FerrisKey adapter that always sends a client_secret field.
FerrisKeyProvider_token_request_with_secret(cfg) ==
    IF ~Truthy(cfg.admin_client_id) THEN NoTokenRequest
    ELSE [sent |-> TRUE, client_id |-> cfg.admin_client_id,
          has_client_secret |-> TRUE, client_secret |-> cfg.admin_client_secret]

\* FerrisKeyProvider.get_admin_token up to its request: no request without
\* an admin_client_id; a client_secret field only if one is configured.
FerrisKeyProvider_token_request(cfg) ==
    IF ~Truthy(cfg.admin_client_id) THEN NoTokenRequest
    ELSE [sent |-> TRUE, client_id |-> cfg.admin_client_id,
          has_client_secret |-> Truthy(cfg.admin_client_secret),
          client_secret |-> IF Truthy(cfg.admin_client_secret)
                            THEN cfg.admin_client_secret ELSE None]

\* KeycloakProvider.get_admin_token up to its request: client_id is
\* config.keycloak_auth_client, no client_secret field.
KeycloakProvider_token_request(cfg) ==
    [sent |-> TRUE, client_id |-> "admin-cli", has_client_secret |-> FALSE,
     client_secret |-> None]

ProviderInit ==
    /\ impl \in Providers
    /\ pc = "Authenticate"
    /\ config \in {load_config(env) : env \in Environments}
    /\ answer = None
    /\ token_request = NoTokenRequest
    /\ dflt = NoDefaultClient
    /\ usernames = {}
    /\ user_count = 0
    /\ clients = <<>>
    /\ ci = 0
    /\ i = 0
    /\ created = 0
    /\ failed = 0
    /\ admin_token = None
    /\ token_answer = NoTokenAnswer
    /\ requests = <<>>
    /\ exit_code = -1
    /\ srv_realms = {}
    /\ srv_users = {}
    /\ calls = <<>>

\* provider.get_admin_token(): sys.exit(1) before the request, or the request
\* and the handling of its answer (the try block is that of the scripts).
ProviderAuthenticate ==
    /\ pc = "Authenticate"
    /\ LET req == IF impl = "FerrisKeyProvider" THEN FerrisKeyProvider_token_request(config)
                  ELSE KeycloakProvider_token_request(config)
       IN  /\ token_request' = req
           /\ IF ~req.sent
              THEN /\ pc' = "Exit"
                   /\ exit_code' = 1
                   /\ UNCHANGED <<token_answer, requests, admin_token>>
              ELSE \E resp \in TokenAnswers :
                     LET out == get_admin_token(resp)
                     IN  /\ token_answer' = resp
                         /\ requests' = Append(requests,
                                Req("token", 0, None, None, out.token, out.kind = "token",
                                    out.kind = "crash"))
                         /\ admin_token' = out.token
                         /\ pc' = CASE out.kind = "token" -> "Adapter"
                                    [] out.kind = "exit" -> "Exit"
                                    [] out.kind = "crash" -> "Crashed"
                         /\ exit_code' = IF out.kind = "token" THEN exit_code ELSE 1
    /\ UNCHANGED <<impl, user_count, clients, ci, i, created, failed, adapterVars,
                   answer, config, dflt, usernames>>

\* provider.create_default_client(token, realm), each of its requests
\* answered with any status and body, or not at all.
CallCreateDefaultClient ==
    /\ pc = "Adapter"
    /\ ~dflt.called
    /\ \E resp \in Answers(impl) : \E lookup \in Lookups(impl, resp) :
         LET client_uuid == create_client(impl, resp, lookup)
         IN  \E sget \in GetAnswers(impl, client_uuid) :
               \E sgen \in PostAnswers(impl, client_uuid, sget) :
                 dflt' = IF impl = "FerrisKeyProvider"
                         THEN FerrisKeyProvider_create_default_client(config, resp, sget)
                         ELSE KeycloakProvider_create_default_client(config, resp, lookup,
                                                                     sget, sgen)
    /\ UNCHANGED <<impl, seedVars, adapterVars, answer, config, token_request, usernames>>

ProviderNext ==
    \/ ProviderAuthenticate
    \/ CallCreateDefaultClient

ProviderSpec == ProviderInit /\ [][ProviderNext]_vars

\* --------------------------------------------------- single adapter calls

\* create_user(token, realm, ...) answered with any status, body and Location
\* header, or not at all.
CallCreateUser ==
    /\ Len(calls) < MaxCalls
    /\ \E resp \in Answers(impl) :
         calls' = Append(calls, Call("create_user", None, FALSE, resp, create_user(impl, resp)))
    /\ UNCHANGED <<impl, seedVars, extraVars, srv_realms, srv_users>>

\* set_user_password(token, realm, user_id, password) answered with any
\* status, or not at all.
CallSetUserPassword ==
    /\ Len(calls) < MaxCalls
    /\ \E user_id \in {None} \cup Ids : \E resp \in PasswordsFor(user_id) :
         calls' = Append(calls, Call("set_user_password", user_id, FALSE, resp,
                                     Returned(set_user_password(user_id, resp), "none")))
    /\ UNCHANGED <<impl, seedVars, extraVars, srv_realms, srv_users>>

\* provider.get_client_secret(token, realm, client_uuid).
CallGetClientSecret ==
    /\ Len(calls) < MaxCalls
    /\ impl \in Providers
    /\ \E resp \in SecretAnswers(impl) :
         calls' = Append(calls, Call("get_client_secret", None, FALSE, resp,
                                     get_client_secret(impl, resp)))
    /\ UNCHANGED <<impl, seedVars, extraVars, srv_realms, srv_users>>

\* KeycloakProvider.generate_client_secret(token, realm, client_uuid).
CallGenerateClientSecret ==
    /\ Len(calls) < MaxCalls
    /\ impl = "KeycloakProvider"
    /\ \E resp \in SecretAnswers(impl) :
         calls' = Append(calls, Call("generate_client_secret", None, FALSE, resp,
                                     KeycloakProvider_generate_client_secret(resp)))
    /\ UNCHANGED <<impl, seedVars, extraVars, srv_realms, srv_users>>

\* KeycloakProvider._get_client_uuid(token, realm, client_id).
CallGetClientUuid ==
    /\ Len(calls) < MaxCalls
    /\ impl = "KeycloakProvider"
    /\ \E lookup \in LookupAnswers :
         calls' = Append(calls, Call("_get_client_uuid", None, FALSE, lookup,
                                     KeycloakProvider_get_client_uuid(lookup)))
    /\ UNCHANGED <<impl, seedVars, extraVars, srv_realms, srv_users>>

AdapterNext ==
    \/ CallCreateRealm
    \/ CallCreateRealmAnyAnswer
    \/ CallCreateClient
    \/ CallCreateUser
    \/ CallSetUserPassword
    \/ CallGetClientSecret
    \/ CallGenerateClientSecret
    \/ CallGetClientUuid

AdapterSpec == AdapterInit /\ [][AdapterNext]_vars

\* ----------------------------------------------------------- provider claims

\* create_default_client of the FerrisKey adapter was called and its
\* create_client gave an identifier.
FerrisKeyDefaultCreated ==
    /\ impl = "FerrisKeyProvider"
    /\ dflt.called
    /\ Truthy(dflt.client_uuid)

C14_CreatedWithoutSecret ==
    dflt.called
    => /\ (Truthy(dflt.client_uuid) /\ ~Truthy(dflt.got) /\ ~Truthy(dflt.generated))
          => /\ ~dflt.raised
             /\ dflt.uuid = dflt.client_uuid
             /\ ~Truthy(dflt.secret)
       /\ Truthy(dflt.secret) => Truthy(dflt.uuid)
       /\ ~Truthy(dflt.client_uuid)
          => /\ ~dflt.raised
             /\ dflt.uuid = None /\ dflt.secret = None
             /\ dflt.gets = 0 /\ dflt.posts = 0

\* C19: once the FerrisKey adapter's get_admin_token has run: without an admin
\* client identifier the process has exited with code 1 and no token request
\* was sent; with one, the token request was sent with that identifier, and it
\* has a client_secret field exactly when an admin client secret is configured.
C19_AdminClientRequired ==
    (impl = "FerrisKeyProvider" /\ pc # "Authenticate")
    => /\ config.admin_client_id = None
          => /\ pc = "Exit" /\ exit_code = 1
             /\ ~token_request.sent
             /\ requests = <<>>
       /\ config.admin_client_id # None
          => /\ token_request.sent
             /\ token_request.client_id = config.admin_client_id
             /\ token_request.has_client_secret <=> (config.admin_client_secret # None)
             /\ token_request.has_client_secret
                => token_request.client_secret = config.admin_client_secret
             /\ Len(requests) = 1 /\ requests[1].op = "token"

\* A run without an identifier has exited; the request log is empty.
C19_Witness ==
    /\ impl = "FerrisKeyProvider"
    /\ config.admin_client_id = None
    /\ pc = "Exit" /\ exit_code = 1
    /\ ~token_request.sent

\* C15: no method of the two adapters other than get_admin_token raises:
\* whatever the status and the body of the answer, and on a transport
\* exception too, create_realm, create_client, create_user,
\* set_user_password, get_client_secret, generate_client_secret and
\* _get_client_uuid return a value.
C15_NoFaultEscapes ==
    impl \in Providers => \A p \in Called : ~calls[p].raised

\* ================================================================ usernames
\* The user loop's derivation of the username, in both seeding scripts:
\*     padded = f"{i:03d}";  username = f"perf-user-{padded}"

DigitChar(d) ==
    CASE d = 0 -> "0" [] d = 1 -> "1" [] d = 2 -> "2" [] d = 3 -> "3" [] d = 4 -> "4"
      [] d = 5 -> "5" [] d = 6 -> "6" [] d = 7 -> "7" [] d = 8 -> "8" [] d = 9 -> "9"

\* str(n) of a natural number, as the list of its characters.
RECURSIVE Decimal(_)
Decimal(n) ==
    IF n < 10 THEN <<DigitChar(n)>> ELSE Append(Decimal(n \div 10), DigitChar(n % 10))

\* Zero fill on the left up to a width; a longer text is left as it is.
RECURSIVE ZeroFill(_, _)
ZeroFill(text, width) ==
    IF Len(text) >= width THEN text ELSE ZeroFill(<<"0">> \o text, width)

\* A format that keeps the last three digits only.
Format03d_last3(n) == ZeroFill(Decimal(n % 1000), 3)

\* f"{n:03d}".
Format03d(n) == ZeroFill(Decimal(n), 3)

\* f"perf-user-{padded}": the prefix, then the characters of padded.
Username(n) == <<"perf-user-">> \o Format03d(n)

NameInit ==
    /\ impl \in Scripts
    /\ pc = "CreateUsers"
    /\ user_count \in {0, 50, MaxIndex}
    /\ i = 0
    /\ usernames = {}
    /\ answer = None
    /\ config = NoConfig
    /\ token_request = NoTokenRequest
    /\ dflt = NoDefaultClient
    /\ clients = <<>>
    /\ ci = 0
    /\ created = 0
    /\ failed = 0
    /\ admin_token = "tok1"
    /\ token_answer = NoTokenAnswer
    /\ requests = <<>>
    /\ exit_code = -1
    /\ srv_realms = {}
    /\ srv_users = {}
    /\ calls = <<>>

\* One turn of  for i in range(1, CONFIG["user_count"] + 1) , as far as the
\* username goes.
DeriveUsername ==
    /\ pc = "CreateUsers"
    /\ i < user_count
    /\ i' = i + 1
    /\ usernames' = usernames \cup {Username(i + 1)}
    /\ UNCHANGED <<impl, pc, user_count, clients, ci, created, failed, admin_token,
                   token_answer, requests, exit_code, adapterVars, answer, config,
                   token_request, dflt>>

\* The loop is over.
NamesDone ==
    /\ pc = "CreateUsers"
    /\ i = user_count
    /\ pc' = "Report"
    /\ UNCHANGED <<impl, user_count, clients, ci, i, created, failed, admin_token,
                   token_answer, requests, exit_code, adapterVars, extraVars>>

NameNext ==
    \/ DeriveUsername
    \/ NamesDone

NameSpec == NameInit /\ [][NameNext]_vars

\* The number a text of decimal digits stands for.
RECURSIVE DecimalValue(_)
DecimalValue(text) ==
    IF text = <<>> THEN 0
    ELSE 10 * DecimalValue(SubSeq(text, 1, Len(text) - 1))
         + (CHOOSE d \in 0..9 : DigitChar(d) = text[Len(text)])

\* C16: every username derived so far is the prefix followed by the decimal
\* digits of an index in 1..i, zero-filled to three digits and no further
\* (four digits from 1000 on), and the i indices gave i different usernames.
C16_Usernames ==
    /\ \A u \in usernames :
         /\ Head(u) = "perf-user-"
         /\ DecimalValue(Tail(u)) \in 1..i
         /\ Len(Tail(u)) = IF DecimalValue(Tail(u)) < 1000 THEN 3 ELSE 4
    /\ Cardinality(usernames) = i

\* The names of 7 and of 1000 are both there, a thousand names in all.
C16_Witness ==
    /\ i >= 1000
    /\ Cardinality(usernames) = i
    /\ <<"perf-user-", "0", "0", "7">> \in usernames
    /\ <<"perf-user-", "1", "0", "0", "0">> \in usernames

\* ------------------------------------------------- exit codes and the token

\* The run is over: main() returned, or the process exited or died.
ProcessEnded == pc \in {"Done", "Exit", "Crashed", "Cancelled"}

\* C17: a seeding or cleanup run that has ended with a non-zero exit code
\* ended in its authentication step: it holds no token and the token request
\* is the only request it sent.  A cancelled cleanup, a failed delete-realm, a
\* failed create-realm and a batch of failed users all end with exit code 0.
C17_ExitCodes ==
    ProcessEnded
    => /\ exit_code # 0
          => /\ ~Truthy(admin_token)
             /\ Len(requests) = 1 /\ requests[1].op = "token"
       /\ pc \in {"Done", "Cancelled"} => exit_code = 0
       /\ Truthy(admin_token) => exit_code = 0

TokenRequests == SelectSeq(requests, LAMBDA r : r.op = "token")

\* C18: a run sends one token request, its first request, and never another;
\* every later request (realm, client, user, password, delete-realm) carries
\* the token that request returned, whatever the earlier requests' outcomes.
C18_OneToken ==
    pc # "Authenticate" /\ pc # "ConfirmIntent" /\ pc # "Cancelled"
    => /\ Len(TokenRequests) = 1
       /\ requests[1].op = "token"
       /\ \A p \in Sent :
            p > 1 => /\ requests[p].op # "token"
                     /\ requests[p].token = requests[1].ret
                     /\ requests[p].token = admin_token
                     /\ Truthy(requests[p].token)

\* A create-user request carries the token although an earlier request of
\* the run failed.
C18_Witness ==
    \E p, q \in Sent :
        /\ 1 < p /\ p < q
        /\ requests[p].op \in {"create_realm", "create_client"} /\ ~requests[p].ok
        /\ requests[q].op = "create_user"
        /\ requests[q].token = "tok2" /\ requests[1].ret = "tok2"

ClientRequests == SelectSeq(requests, LAMBDA r : r.op = "create_client")

\* C20: a run that passed authentication and has left the CreateClients step
\* (or has ended) sent exactly one create-client request per fixture
\* descriptor, in fixture order, whatever the earlier ones' outcomes; with an
\* empty fixture it sent none; and it went on to the CreateUsers step.
C20_OneRequestPerDescriptor ==
    /\ (Truthy(admin_token) /\ (RunEnded \/ pc \in {"CreateUsers", "Report"}))
       => /\ Len(ClientRequests) = Len(clients)
          /\ \A j \in 1..Len(ClientRequests) : ClientRequests[j].idx = j
          /\ pc # "Crashed"
    /\ \A p \in Sent :
         requests[p].op = "create_client"
         => /\ requests[p].idx \in 1..Len(clients)
            /\ requests[p].idx > 1
               => /\ requests[p - 1].op = "create_client"
                  /\ requests[p - 1].idx = requests[p].idx - 1

\* ---------------------------------------------------- the cleanup's request

DeleteRequests == SelectSeq(requests, LAMBDA r : r.op = "delete_realm")

\* C26: a cleanup run sends at most one delete-realm request, and only as its
\* second request, after an affirmative answer at the prompt and a token
\* request that gave a token; once it is sent, whatever the answer (200/204,
\* 404, another status, a transport exception), the run is at Done with exit
\* code 0, and a run at Done has sent it.
C26_DeleteOnceAfterAuth ==
    impl = "cleanup_test_data_keycloak"
    => /\ Len(DeleteRequests) <= 1
       /\ \A p \in Sent :
            requests[p].op = "delete_realm"
            => /\ p = 2
               /\ Affirmative
               /\ requests[1].op = "token" /\ requests[1].ok
               /\ requests[p].token = requests[1].ret /\ Truthy(requests[p].token)
               /\ ~requests[p].raised
               /\ pc = "Done" /\ exit_code = 0
       /\ pc = "Done" => Len(DeleteRequests) = 1
       /\ pc \in {"ConfirmIntent", "Authenticate", "DeleteRealm", "Done", "Cancelled",
                  "Exit", "Crashed"}

\* A delete-realm request that failed, in a run that ended normally.
C26_Witness ==
    /\ impl = "cleanup_test_data_keycloak"
    /\ pc = "Done" /\ exit_code = 0
    /\ Len(requests) = 2
    /\ requests[2].op = "delete_realm" /\ ~requests[2].ok

\* -------------------------------------------------------------- termination

\* The seeding run under the scheduling of a sequential program: a step that
\* can be taken is taken (every request returns or times out).
FairSpec == Spec /\ WF_vars(Next)

Count(op) == Len(SelectSeq(requests, LAMBDA r : r.op = op))

\* The requests a run may have sent: one token request, one create-realm
\* request, one create-client request per descriptor, one create-user and one
\* set-password request per user index; 2 + C + 2N in all.
WithinRequestBudget ==
    /\ Count("token") <= 1
    /\ Count("create_realm") <= 1
    /\ Count("create_client") <= Len(clients)
    /\ Count("create_user") <= user_count
    /\ Count("set_user_password") <= user_count
    /\ Len(requests) <= 2 + Len(clients) + 2 * user_count
    /\ \A p, q \in Sent :
         (p < q /\ requests[p].op = requests[q].op) => requests[p].idx < requests[q].idx

\* C27: nothing is retried: a seeding run always stays within the request
\* budget above, no request is sent twice for the same descriptor or user
\* index, and the run always comes to its end.
C27_TerminatesWithinBudget == []WithinRequestBudget /\ <>RunEnded

\* A run that spent the whole budget: every descriptor and every user of the
\* largest configuration got its requests.
C27_Witness ==
    /\ pc = "Done"
    /\ Len(clients) = MaxClients /\ user_count = MaxUsers
    /\ Len(requests) = 2 + Len(clients) + 2 * user_count

\* ===================================================== single applications
\* Each function applied once to one answer of the server, the answer kept
\* next to the result.

NoLookup == [kind |-> "exception", status |-> 0, shape |-> "malformed", firstId |-> None]

NoTurn == [setPassword |-> FALSE, created |-> 0, failed |-> 0]

\* One application: the function, the answers to its requests (resp to the
\* first, lookup to the client lookup, sget / sgen to the secret GET / POST),
\* the secret the server held for the client beforehand, the result, and for
\* a turn of the user loop what it did with the counters.
Applied(fn, resp, lookup, sget, sgen, held, out, turn) ==
    [fn |-> fn, resp |-> resp, lookup |-> lookup, sget |-> sget, sgen |-> sgen,
     held |-> held, out |-> out, turn |-> turn]

ApplyInit ==
    /\ ExtraUnused
    /\ impl \in Impls
    /\ pc = "Apply"
    /\ user_count = 0
    /\ clients = <<>>
    /\ ci = 0
    /\ i = 0
    /\ created = 0
    /\ failed = 0
    /\ admin_token = "tok1"
    /\ token_answer = NoTokenAnswer
    /\ requests = <<>>
    /\ exit_code = -1
    /\ srv_realms = {}
    /\ srv_users = {}
    /\ calls = <<>>

\* create_client(token, realm, client_data).
ApplyCreateClient ==
    /\ calls = <<>>
    /\ \E resp \in Answers(impl) : \E lookup \in Lookups(impl, resp) :
         calls' = <<Applied("create_client", resp, lookup, NoSecretAnswer, NoSecretAnswer,
                            None, create_client(impl, resp, lookup), NoTurn)>>
    /\ UNCHANGED <<impl, seedVars, extraVars, srv_realms, srv_users>>

\* create_user(token, realm, ...).
ApplyCreateUser ==
    /\ calls = <<>>
    /\ \E resp \in Answers(impl) :
         calls' = <<Applied("create_user", resp, NoLookup, NoSecretAnswer, NoSecretAnswer,
                            None, create_user(impl, resp), NoTurn)>>
    /\ UNCHANGED <<impl, seedVars, extraVars, srv_realms, srv_users>>

\* One turn of the scripts' user loop: create_user, then  if user_id:
\* set_user_password ... created += 1 / failed += 1  else  failed += 1 .
ApplyUserTurn ==
    /\ calls = <<>>
    /\ impl \in Scripts
    /\ \E resp \in Answers(impl) :
         LET cu == create_user(impl, resp)
         IN  \E pw \in PasswordsFor(cu.value) :
               calls' = <<Applied("user_turn", resp, NoLookup, NoSecretAnswer,
                                  NoSecretAnswer, None, cu,
                                  IF cu.raised THEN NoTurn
                                  ELSE Tally(cu.value, set_user_password(cu.value, pw)))>>
    /\ UNCHANGED <<impl, seedVars, extraVars, srv_realms, srv_users>>

\* KeycloakProvider._get_client_uuid(token, realm, client_id).
ApplyGetClientUuid ==
    /\ calls = <<>>
    /\ impl = "KeycloakProvider"
    /\ \E lookup \in LookupAnswers :
         calls' = <<Applied("_get_client_uuid", TransportFailure, lookup, NoSecretAnswer,
                            NoSecretAnswer, None, KeycloakProvider_get_client_uuid(lookup),
                            NoTurn)>>
    /\ UNCHANGED <<impl, seedVars, extraVars, srv_realms, srv_users>>

\* provider.create_default_client(token, realm) for a client the server holds
\* a secret for, or none.
ApplyCreateDefaultClient ==
    /\ calls = <<>>
    /\ impl \in Providers
    /\ \E held \in {None} \cup Secrets :
       \E resp \in Answers(impl) : \E lookup \in Lookups(impl, resp) :
         LET client_uuid == create_client(impl, resp, lookup)
         IN  \E sget \in GetAnswers(impl, client_uuid) :
               \E sgen \in PostAnswers(impl, client_uuid, sget) :
                 calls' = <<Applied("create_default_client", resp, lookup, sget, sgen, held,
                        IF impl = "FerrisKeyProvider"
                        THEN FerrisKeyProvider_create_default_client(NoConfig, resp, sget)
                        ELSE KeycloakProvider_create_default_client(NoConfig, resp, lookup,
                                                                    sget, sgen),
                        NoTurn)>>
    /\ UNCHANGED <<impl, seedVars, extraVars, srv_realms, srv_users>>

ApplyNext ==
    \/ ApplyCreateClient
    \/ ApplyCreateUser
    \/ ApplyUserTurn
    \/ ApplyGetClientUuid
    \/ ApplyCreateDefaultClient

ApplySpec == ApplyInit /\ [][ApplyNext]_vars

\* ------------------------------------------------- identifier extraction

Applications == DOMAIN calls

\* The lookup answered 200 with a list of client objects.
LookupFound(a) ==
    a.lookup.kind = "response" /\ a.lookup.status = 200 /\ a.lookup.shape = "objects"

\* The lookup failed in transport, answered another status than 200, or an
\* empty list.
LookupEmpty(a) ==
    \/ a.lookup.kind = "exception"
    \/ a.lookup.status # 200
    \/ a.lookup.shape = "falsy"

\* C21: Keycloak's adapter: the lookup returns the id of the first client of
\* the list, and None when the list is empty, the status is not 200 or the
\* transport fails; create_client returns the lookup's result on a 409; and
\* create_default_client, when the client exists already (409) and the lookup
\* finds it, goes on to the secret GET with the existing client's UUID.
C21_ExistingClientLookup ==
    impl = "KeycloakProvider"
    => \A p \in Applications :
         LET a == calls[p]
         IN  /\ a.fn = "_get_client_uuid"
                => /\ LookupFound(a) => (~a.out.raised /\ a.out.value = a.lookup.firstId)
                   /\ LookupEmpty(a) => (~a.out.raised /\ a.out.value = None)
             /\ (a.fn = "create_client" /\ a.resp.kind = "response" /\ a.resp.status = 409)
                => /\ LookupFound(a) => (~a.out.raised /\ a.out.value = a.lookup.firstId)
                   /\ LookupEmpty(a) => (~a.out.raised /\ a.out.value = None)
             /\ (/\ a.fn = "create_default_client"
                 /\ a.resp.kind = "response" /\ a.resp.status = 409
                 /\ LookupFound(a) /\ Truthy(a.lookup.firstId))
                => /\ a.out.client_uuid = a.lookup.firstId
                   /\ a.out.gets = 1
                   /\ ~a.out.raised => a.out.uuid = a.lookup.firstId

\* The default client exists already; the lookup finds it and its secret is
\* retrieved.
C21_Witness ==
    /\ impl = "KeycloakProvider"
    /\ \E p \in Applications :
         /\ calls[p].fn = "create_default_client"
         /\ calls[p].resp.kind = "response" /\ calls[p].resp.status = 409
         /\ calls[p].out.uuid = "u1"
         /\ calls[p].out.gets = 1
         /\ calls[p].out.secret \in Secrets

\* The body is a JSON object whose "data" member, if any, is an object.
WellFormed(body) == body.shape = "object" /\ body.dataKind \in {"absent", "object"}

\* C22: FerrisKey's create_client and create_user: on a 200/201 they return
\* data.id when it is there and not empty, otherwise the top-level id,
\* otherwise no identifier; a body that is not JSON, or not of that shape,
\* gives None without raising; any other status, and a transport failure,
\* gives None.  (An empty identifier counts as none.)
C22_FerrisKeyIdentifier ==
    Backend(impl) = "ferriskey"
    => \A p \in Applications :
         LET a == calls[p]
             body == a.resp.body
         IN  a.fn \in {"create_client", "create_user"}
             => /\ ~a.out.raised
                /\ IF a.resp.kind = "response" /\ a.resp.status \in {200, 201} /\ WellFormed(body)
                   THEN IF body.dataKind = "object" /\ Truthy(body.dataId)
                        THEN a.out.value = body.dataId
                        ELSE IF Truthy(body.topId) THEN a.out.value = body.topId
                        ELSE ~Truthy(a.out.value)
                   ELSE a.out.value = None

ServerHoldsSecret(a) ==
    /\ a.held \in Secrets
    /\ (a.sget.kind = "response" /\ a.sget.status = 200)
       => (a.sget.body.shape = "object" /\ a.sget.body.top = a.held)

\* C24: Keycloak's create_default_client sends at most one GET and at most
\* one POST, and when the server holds a secret for the client already it
\* sends no POST and returns that secret, whatever the GET's outcome.
C24_NoNeedlessRotation ==
    impl = "KeycloakProvider"
    => \A p \in Applications :
         LET a == calls[p]
         IN  a.fn = "create_default_client"
             => /\ a.out.gets <= 1 /\ a.out.posts <= 1
                /\ (ServerHoldsSecret(a) /\ Truthy(a.out.client_uuid))
                   => /\ a.out.posts = 0
                      /\ ~a.out.raised
                      /\ a.out.secret = a.held

\* ============================================================ seeding again
\* scripts/seed_test_data_keycloak.py run, and run again with the same
\* configuration, against one Keycloak server that keeps what it was given.

\* CONFIG["perf_realm"] of the seeding script.
SeedRealm == "perf"

\* The usernames of a run with N users.
AllUsernames(n) == {Username(k) : k \in 1..n}

\* What the server held when a run started.
RunStart == [fn |-> "main", realm |-> SeedRealm \in srv_realms, users |-> srv_users]

RerunInit ==
    /\ ExtraUnused
    /\ impl = "seed_test_data_keycloak"
    /\ pc = "Authenticate"
    /\ user_count \in 0..MaxUsers
    /\ clients \in {Fixture(n) : n \in 0..MaxClients}
    /\ ci = 0
    /\ i = 0
    /\ created = 0
    /\ failed = 0
    /\ admin_token = None
    /\ token_answer = NoTokenAnswer
    /\ requests = <<>>
    /\ exit_code = -1
    /\ srv_realms = {}
    /\ srv_users = {}
    /\ calls = <<>>

\* Step 2 against the server: it creates the realm (201) unless it has it (409).
ServerCreateRealm ==
    /\ pc = "CreateRealm"
    /\ \E st \in IF SeedRealm \in srv_realms THEN AlreadyExistsStatuses(Backend(impl))
                                              ELSE CreatedStatuses(Backend(impl)) :
         LET resp == [kind |-> "response", status |-> st, body |-> NoBody,
                      location |-> NoLocation]
             out == create_realm(impl, resp)
         IN  requests' = Append(requests,
                 Req("create_realm", 0, admin_token, None, None, out.value, FALSE))
    /\ srv_realms' = srv_realms \cup {SeedRealm}
    /\ pc' = NextStep(pc)
    /\ UNCHANGED <<impl, user_count, clients, ci, i, created, failed, admin_token,
                   token_answer, exit_code, srv_users, calls, extraVars>>

\* One turn of the user loop against the server: it creates the user (201
\* with a Location that ends in the new id) unless it has one of that
\* username (409, no Location); the reset-password request is answered in any
\* way.
ServerCreateUser ==
    /\ pc = "CreateUsers"
    /\ i < user_count
    /\ \E resp \in {r \in KeycloakAnswers :
                      /\ r.kind = "response"
                      /\ IF Username(i + 1) \in srv_users
                         THEN r.status = 409 /\ r.location = NoLocation
                         ELSE /\ r.status = 201
                              /\ r.location.present
                              /\ r.location.value[Len(r.location.value)] \in Ids} :
         \E pw \in PasswordsFor(create_user(impl, resp).value) :
           LET k == i + 1
               cu == create_user(impl, resp)
               pwOk == set_user_password(cu.value, pw)
               t == Tally(cu.value, pwOk)
               sent == Append(requests,
                          Req("create_user", k, admin_token, None, cu.value, FALSE, cu.raised))
           IN  /\ requests' =
                      IF t.setPassword
                      THEN Append(sent, Req("set_user_password", k, admin_token, cu.value,
                                            None, pwOk, FALSE))
                      ELSE sent
               /\ created' = created + t.created
               /\ failed' = failed + t.failed
    /\ srv_users' = srv_users \cup {Username(i + 1)}
    /\ i' = i + 1
    /\ UNCHANGED <<impl, pc, user_count, clients, ci, admin_token, token_answer, exit_code,
                   srv_realms, calls, extraVars>>

\* The script is run again, with the same configuration.
RunAgain ==
    /\ pc \in {"Done", "Exit", "Crashed"}
    /\ Len(calls) < MaxCalls
    /\ calls' = Append(calls, RunStart)
    /\ pc' = "Authenticate"
    /\ ci' = 0
    /\ i' = 0
    /\ created' = 0
    /\ failed' = 0
    /\ admin_token' = None
    /\ token_answer' = NoTokenAnswer
    /\ requests' = <<>>
    /\ exit_code' = -1
    /\ UNCHANGED <<impl, user_count, clients, srv_realms, srv_users, extraVars>>

RerunNext ==
    \/ Authenticate
    \/ ServerCreateRealm
    \/ CreateClient
    \/ ClientsDone
    \/ ServerCreateUser
    \/ UsersDone
    \/ Report
    \/ RunAgain

RerunSpec == RerunInit /\ [][RerunNext]_vars

\* The run in progress is a second (or later) one, and when it started the
\* server had the realm and all N users.
SeededBefore ==
    /\ calls # <<>>
    /\ calls[Len(calls)].realm
    /\ calls[Len(calls)].users = AllUsernames(user_count)

\* C25: a run of the Keycloak seeding script against a server that had the
\* realm and all N users when the run started, once it passed authentication:
\* create-realm returned True; every create-user request gave no identifier;
\* no set-password request was sent; created is 0 and failed counts the users
\* tried; the server's users are those it had; and the run does not crash and
\* ends at Done with created = 0, failed = N and exit code 0.
C25_SecondRun ==
    (SeededBefore /\ Truthy(admin_token))
    => /\ \A p \in Sent :
            /\ requests[p].op = "create_realm" => requests[p].ok
            /\ requests[p].op = "create_user" => requests[p].ret = None
            /\ requests[p].op # "set_user_password"
       /\ created = 0 /\ failed = i
       /\ srv_users = calls[Len(calls)].users
       /\ pc # "Crashed"
       /\ pc = "Done" => (failed = user_count /\ exit_code = 0)

\* A second run over the largest user count has ended: nothing created.
C25_Witness ==
    /\ SeededBefore
    /\ user_count = MaxUsers
    /\ pc = "Done" /\ exit_code = 0
    /\ created = 0 /\ failed = MaxUsers
    /\ Count("create_user") = MaxUsers /\ Count("set_user_password") = 0

====
